---- MODULE Spec2Model ----
(***************************************************************************)
(* Model of mtgban/go-tcgplayer:                                           *)
(*   - authTransport.RoundTrip / requestToken (src/tcgplayer.go), run by   *)
(*     several goroutines sharing one transport           -> Spec          *)
(*   - Client.GetRequest, the envelope decoder            -> SpecDecode    *)
(*   - the rate limiter of the transport under a burst    -> SpecLimiter   *)
(*   - the pagination part of run() of the dump command                    *)
(*     (src/unnamed/part_000)                  -> SpecDump, SpecDumpFair   *)
(*   - run() as a whole, from its options to its exit     -> SpecExport    *)
(* Time is counted in seconds; the limiter's clock in limiter ticks.       *)
(***************************************************************************)
EXTENDS Integers, Sequences, FiniteSets, TLC

(* ------------------------------ bounds --------------------------------- *)
\* goroutines calling RoundTrip on the shared transport
NumCallers == 2
\* RoundTrip calls made in all
MaxCalls == 2
\* how many times the clock advances (by one Skew each time)
MaxTicks == 1
\* RoundTrip calls made beyond one full burst of the limiter
MaxExtraCalls == 2
\* how many limiter ticks pass while the burst is made
MaxElapsed == 1

\* largest value of the -thread option
MaxWorkers == 2
\* pages of the longest collection (walked with at most one worker)
MaxPages == 3

(* ------------------------- program constants --------------------------- *)
\* items per page of a paginated call
MaxItemsInResponse == 100
\* time.Hour in seconds, the margin of "expires.Add(-1*time.Hour)"
Skew == 3600
\* time.Time{}: the zero time, far in the past
ZeroTime == 0
\* rate.NewLimiter(80, 20): permits per second, and the size of a burst
LimiterRate == 80
LimiterBurst == 20

Callers == 1 .. NumCallers
NoOne == 0
StartTime == ZeroTime + 2 * Skew
TickSeconds == Skew

\* what the token endpoint can answer to the POST of requestToken:
\* a transport / read / JSON error, or a decoded body. A body without
\* access_token (an OAuth error document) decodes to "" and 0.
TokenResponses ==
    <<[err |-> TRUE, access_token |-> "", expires_in |-> 0],
      [err |-> FALSE, access_token |-> "A", expires_in |-> 2 * Skew],
      [err |-> FALSE, access_token |-> "B", expires_in |-> 3 * Skew],
      [err |-> FALSE, access_token |-> "", expires_in |-> 0]>>

VARIABLES
    \* authTransport
    publicKey, privateKey, token, expires, readers, writer, granted,
    \* the clock
    now,
    \* one RoundTrip activation per goroutine
    pc, ltoken, lexpires, lerr, calls, result,
    \* observation of the run (history)
    checkedAt, didRequest, inRequest, requests, goodRequests, late

authVars == <<publicKey, privateKey, token, expires, readers, writer, granted,
              now, pc, ltoken, lexpires, lerr, calls, result,
              checkedAt, didRequest, inRequest, requests, goodRequests, late>>

VARIABLES
    \* the limiter of the transport: what the bucket holds, the limiter's clock
    bucket, elapsed,
    \* how many RoundTrip calls the goroutines make in all
    budget,
    \* observation of the run (history)
    grantTimes, sends

limVars == <<bucket, elapsed, budget, grantTimes, sends>>

VARIABLES
    \* one GetRequest call: what the HTTP client hands back, and what it returns
    reply, decoded

decVars == <<reply, decoded>>

VARIABLES
    \* the dump command: options, totals and what the server's catalogue holds
    threadOpt, totalProducts, catalog,
    \* main goroutine
    mpc, products, exitCode,
    \* producer goroutine and the two channels
    ppc, i, pagesClosed, channelClosed, wg,
    \* worker goroutines
    wpc, page, sending,
    \* observation of the run (history)
    emitted, fetchedBy, fetchCount, failedPages, drained

dumpVars == <<threadOpt, totalProducts, catalog, mpc, products, exitCode,
              ppc, i, pagesClosed, channelClosed, wg, wpc, page, sending,
              emitted, fetchedBy, fetchCount, failedPages, drained>>

VARIABLES
    \* run() before the pagination: the options and the environment
    tcgPublicKeyOpt, tcgPrivateKeyOpt, pubEnv, priEnv, categoryOpt,
    \* the client, and what the baseline calls returned
    tcgClient, categories, totalgroups, groups, gi,
    \* observation of the run (history): the requests run() has issued before
    \* the pagination, which of them returned an error, and how often
    \* close(channel) was executed
    issued, failedCall, closes

runVars == <<tcgPublicKeyOpt, tcgPrivateKeyOpt, pubEnv, priEnv, categoryOpt,
             tcgClient, categories, totalgroups, groups, gi,
             issued, failedCall, closes>>

vars == <<authVars, limVars, decVars, dumpVars, runVars>>

(* -------------------------- sync.RWMutex ------------------------------- *)
CanRLock == writer = NoOne
CanLockNoExclusion == TRUE
CanLock == writer = NoOne /\ readers = {}

(* --------------------------- rate.Limiter ------------------------------ *)
\* The limiter is a token bucket: it starts full with `burst` permits, gains
\* `limit` permits per second up to `burst`, and Wait takes one permit, blocking
\* while there is none. One limiter tick is 1/TicksPerSecond s, the time in
\* which a limiter of LimiterRate makes one permit; the bucket is counted in
\* parts of a permit, PermitParts to the permit, so that any rate fills it by
\* a whole number of parts per tick.
TicksPerSecond == LimiterRate
PermitParts == TicksPerSecond

\* line 165: limiter: rate.NewLimiter(80, 20)
NewLimiterSwapped == [limit |-> LimiterBurst, burst |-> LimiterRate]
NewLimiter == [limit |-> LimiterRate, burst |-> LimiterBurst]

FullBucket == NewLimiter.burst * PermitParts
\* the bucket after d more limiter ticks
Refill(level, d) ==
    IF level + NewLimiter.limit * d > FullBucket
    THEN FullBucket
    ELSE level + NewLimiter.limit * d
\* Wait returns once the bucket holds a whole permit
HasPermit(level) == level >= PermitParts

(* ------------------------- requestToken -------------------------------- *)
\* (token, expires, err) returned for the endpoint's answer r at time t
requestToken(r, t) ==
    IF r.err
    THEN [token |-> "", expires |-> ZeroTime, err |-> TRUE]
    ELSE [token |-> r.access_token, expires |-> t + r.expires_in, err |-> FALSE]

(* --------------------------- RoundTrip --------------------------------- *)
MissingKeysBoth == publicKey = "" /\ privateKey = ""
MissingKeys == publicKey = "" \/ privateKey = ""
\* line 228: if token != "" || time.Now().After(expires.Add(-1*time.Hour))
NotValid(c) == ltoken[c] # "" \/ now > lexpires[c] - Skew
\* line 240: if token == t.token
ShouldRequestAlways(c) == TRUE
ShouldRequestInverted(c) == ltoken[c] # token
ShouldRequest(c) == ltoken[c] = token

InitAuth ==
    /\ publicKey \in {"", "pub"}
    /\ privateKey \in {"", "pri"}
    /\ token = ""
    /\ expires = ZeroTime
    /\ readers = {}
    /\ writer = NoOne
    /\ granted = 0
    /\ now = StartTime
    /\ pc = [c \in Callers |-> "idle"]
    /\ ltoken = [c \in Callers |-> ""]
    /\ lexpires = [c \in Callers |-> ZeroTime]
    /\ lerr = [c \in Callers |-> FALSE]
    /\ calls = 0
    /\ result = [c \in Callers |-> "none"]
    /\ checkedAt = [c \in Callers |-> ZeroTime]
    /\ didRequest = [c \in Callers |-> FALSE]
    /\ inRequest = {}
    /\ requests = 0
    /\ goodRequests = 0
    /\ late = FALSE

\* the limiter NewClient makes, and the calls the goroutines will make
InitLimiter(n) ==
    /\ bucket = FullBucket
    /\ elapsed = 0
    /\ budget = n
    /\ grantTimes = <<>>
    /\ sends = 0

\* t.limiter.Wait(context.Background()): the call blocks until the limiter
\* has a permit, and takes it
Wait(c) ==
    /\ pc[c] = "idle"
    /\ UNCHANGED <<decVars, dumpVars, runVars>>
    /\ calls < budget
    /\ HasPermit(bucket)
    /\ bucket' = bucket - PermitParts
    /\ grantTimes' = Append(grantTimes, elapsed)
    /\ UNCHANGED <<elapsed, budget, sends>>
    /\ calls' = calls + 1
    /\ granted' = granted + 1
    /\ pc' = [pc EXCEPT ![c] = "keys"]
    /\ ltoken' = [ltoken EXCEPT ![c] = ""]
    /\ lexpires' = [lexpires EXCEPT ![c] = ZeroTime]
    /\ lerr' = [lerr EXCEPT ![c] = FALSE]
    /\ result' = [result EXCEPT ![c] = "none"]
    /\ didRequest' = [didRequest EXCEPT ![c] = FALSE]
    /\ late' = (late \/ requests > Cardinality(inRequest))
    /\ UNCHANGED <<publicKey, privateKey, token, expires, readers, writer, now,
                   checkedAt, inRequest, requests, goodRequests>>

\* if t.publicKey == "" || t.privateKey == "" { return nil, error }
CheckKeys(c) ==
    /\ pc[c] = "keys"
    /\ UNCHANGED <<decVars, dumpVars, runVars>>
    /\ UNCHANGED limVars
    /\ IF MissingKeys
       THEN /\ pc' = [pc EXCEPT ![c] = "idle"]
            /\ result' = [result EXCEPT ![c] = "err_keys"]
       ELSE /\ pc' = [pc EXCEPT ![c] = "rlock"]
            /\ UNCHANGED result
    /\ UNCHANGED <<publicKey, privateKey, token, expires, readers, writer, granted,
                   now, ltoken, lexpires, lerr, calls,
                   checkedAt, didRequest, inRequest, requests, goodRequests, late>>

\* t.mtx.RLock()
RLock(c) ==
    /\ pc[c] = "rlock"
    /\ UNCHANGED <<decVars, dumpVars, runVars>>
    /\ UNCHANGED limVars
    /\ CanRLock
    /\ readers' = readers \cup {c}
    /\ pc' = [pc EXCEPT ![c] = "read"]
    /\ UNCHANGED <<publicKey, privateKey, token, expires, writer, granted,
                   now, ltoken, lexpires, lerr, calls, result,
                   checkedAt, didRequest, inRequest, requests, goodRequests, late>>

\* token := t.token; expires := t.expires; t.mtx.RUnlock()
ReadStatic(c) ==
    /\ pc[c] = "read"
    /\ UNCHANGED <<decVars, dumpVars, runVars>>
    /\ UNCHANGED limVars
    /\ ltoken' = [ltoken EXCEPT ![c] = token]
    /\ lexpires' = [lexpires EXCEPT ![c] = expires]
    /\ readers' = readers \ {c}
    /\ pc' = [pc EXCEPT ![c] = "check"]
    /\ UNCHANGED <<publicKey, privateKey, token, expires, writer, granted,
                   now, lerr, calls, result,
                   checkedAt, didRequest, inRequest, requests, goodRequests, late>>

\* the validity test of line 228, with time.Now() read here
CheckValid(c) ==
    /\ pc[c] = "check"
    /\ UNCHANGED <<decVars, dumpVars, runVars>>
    /\ UNCHANGED limVars
    /\ checkedAt' = [checkedAt EXCEPT ![c] = now]
    /\ pc' = [pc EXCEPT ![c] = IF NotValid(c) THEN "lock1" ELSE "gen"]
    /\ UNCHANGED <<publicKey, privateKey, token, expires, readers, writer, granted,
                   now, ltoken, lexpires, lerr, calls, result,
                   didRequest, inRequest, requests, goodRequests, late>>

\* t.mtx.Lock() of line 230
LockClear(c) ==
    /\ pc[c] = "lock1"
    /\ UNCHANGED <<decVars, dumpVars, runVars>>
    /\ UNCHANGED limVars
    /\ CanLock
    /\ writer' = c
    /\ pc' = [pc EXCEPT ![c] = "clear"]
    /\ UNCHANGED <<publicKey, privateKey, token, expires, readers, granted,
                   now, ltoken, lexpires, lerr, calls, result,
                   checkedAt, didRequest, inRequest, requests, goodRequests, late>>

\* token = ""; t.mtx.Unlock()
Clear(c) ==
    /\ pc[c] = "clear"
    /\ UNCHANGED <<decVars, dumpVars, runVars>>
    /\ UNCHANGED limVars
    /\ ltoken' = [ltoken EXCEPT ![c] = ""]
    /\ writer' = NoOne
    /\ pc' = [pc EXCEPT ![c] = "gen"]
    /\ UNCHANGED <<publicKey, privateKey, token, expires, readers, granted,
                   now, lexpires, lerr, calls, result,
                   checkedAt, didRequest, inRequest, requests, goodRequests, late>>

\* if token == "" { t.mtx.Lock() ...
LockGenerate(c) ==
    /\ pc[c] = "gen"
    /\ UNCHANGED <<decVars, dumpVars, runVars>>
    /\ UNCHANGED limVars
    /\ IF ltoken[c] = ""
       THEN /\ CanLock
            /\ writer' = c
            /\ pc' = [pc EXCEPT ![c] = "compare"]
       ELSE /\ pc' = [pc EXCEPT ![c] = "send"]
            /\ UNCHANGED writer
    /\ UNCHANGED <<publicKey, privateKey, token, expires, readers, granted,
                   now, ltoken, lexpires, lerr, calls, result,
                   checkedAt, didRequest, inRequest, requests, goodRequests, late>>

\* if token == t.token { <call requestToken> } else: token = t.token; Unlock
Compare(c) ==
    /\ pc[c] = "compare"
    /\ UNCHANGED <<decVars, dumpVars, runVars>>
    /\ UNCHANGED limVars
    /\ IF ShouldRequest(c)
       THEN /\ pc' = [pc EXCEPT ![c] = "request"]
            /\ inRequest' = inRequest \cup {c}
            /\ requests' = requests + 1
            /\ didRequest' = [didRequest EXCEPT ![c] = TRUE]
            /\ UNCHANGED <<ltoken, lexpires, writer>>
       ELSE /\ ltoken' = [ltoken EXCEPT ![c] = token]
            /\ lexpires' = [lexpires EXCEPT ![c] = expires]
            /\ writer' = NoOne
            /\ pc' = [pc EXCEPT ![c] = "err"]
            /\ UNCHANGED <<inRequest, requests, didRequest>>
    /\ UNCHANGED <<publicKey, privateKey, token, expires, readers, granted,
                   now, lerr, calls, result, checkedAt, goodRequests, late>>

\* t.token, t.expires, err = t.requestToken(); token = t.token; Unlock
RequestToken(c) ==
    /\ pc[c] = "request"
    /\ UNCHANGED <<decVars, dumpVars, runVars>>
    /\ UNCHANGED limVars
    /\ \E k \in 1 .. Len(TokenResponses) :
         LET out == requestToken(TokenResponses[k], now) IN
         /\ token' = out.token
         /\ expires' = out.expires
         /\ lerr' = [lerr EXCEPT ![c] = out.err]
         /\ ltoken' = [ltoken EXCEPT ![c] = out.token]
         /\ lexpires' = [lexpires EXCEPT ![c] = out.expires]
         /\ goodRequests' = IF out.token # "" THEN goodRequests + 1 ELSE goodRequests
    /\ inRequest' = inRequest \ {c}
    /\ writer' = NoOne
    /\ pc' = [pc EXCEPT ![c] = "err"]
    /\ UNCHANGED <<publicKey, privateKey, readers, granted,
                   now, calls, result, checkedAt, didRequest, requests, late>>

\* if err != nil { return nil, err }
CheckErr(c) ==
    /\ pc[c] = "err"
    /\ UNCHANGED <<decVars, dumpVars, runVars>>
    /\ UNCHANGED limVars
    /\ IF lerr[c]
       THEN /\ pc' = [pc EXCEPT ![c] = "idle"]
            /\ result' = [result EXCEPT ![c] = "err_auth"]
       ELSE /\ pc' = [pc EXCEPT ![c] = "send"]
            /\ UNCHANGED result
    /\ UNCHANGED <<publicKey, privateKey, token, expires, readers, writer, granted,
                   now, ltoken, lexpires, lerr, calls,
                   checkedAt, didRequest, inRequest, requests, goodRequests, late>>

\* req.Header.Add("Authorization", "Bearer "+token); t.parent.RoundTrip(req)
Send(c) ==
    /\ pc[c] = "send"
    /\ UNCHANGED <<decVars, dumpVars, runVars>>
    /\ sends' = sends + 1
    /\ UNCHANGED <<bucket, elapsed, budget, grantTimes>>
    /\ result' = [result EXCEPT ![c] = "sent"]
    /\ pc' = [pc EXCEPT ![c] = "idle"]
    /\ UNCHANGED <<publicKey, privateKey, token, expires, readers, writer, granted,
                   now, ltoken, lexpires, lerr, calls,
                   checkedAt, didRequest, inRequest, requests, goodRequests, late>>

\* time passes: an hour
Tick ==
    /\ now < StartTime + MaxTicks * TickSeconds
    /\ UNCHANGED <<decVars, dumpVars, runVars>>
    /\ now' = now + TickSeconds
    /\ elapsed' = elapsed + TickSeconds * TicksPerSecond
    /\ bucket' = Refill(bucket, TickSeconds * TicksPerSecond)
    /\ UNCHANGED <<budget, grantTimes, sends>>
    /\ UNCHANGED <<publicKey, privateKey, token, expires, readers, writer, granted,
                   pc, ltoken, lexpires, lerr, calls, result,
                   checkedAt, didRequest, inRequest, requests, goodRequests, late>>

\* time passes: one limiter tick
Elapse ==
    /\ elapsed < MaxElapsed
    /\ UNCHANGED <<decVars, dumpVars, runVars>>
    /\ elapsed' = elapsed + 1
    /\ now' = StartTime + elapsed' \div TicksPerSecond
    /\ bucket' = Refill(bucket, 1)
    /\ UNCHANGED <<budget, grantTimes, sends>>
    /\ UNCHANGED <<publicKey, privateKey, token, expires, readers, writer, granted,
                   pc, ltoken, lexpires, lerr, calls, result,
                   checkedAt, didRequest, inRequest, requests, goodRequests, late>>

RoundTrip(c) ==
    \/ Wait(c)
    \/ CheckKeys(c)
    \/ RLock(c)
    \/ ReadStatic(c)
    \/ CheckValid(c)
    \/ LockClear(c)
    \/ Clear(c)
    \/ LockGenerate(c)
    \/ Compare(c)
    \/ RequestToken(c)
    \/ CheckErr(c)
    \/ Send(c)

(* ------------------------- Client.GetRequest --------------------------- *)
\* strings.Join(elems, sep)
RECURSIVE Join(_, _)
Join(elems, sep) ==
    IF elems = <<>> THEN ""
    ELSE IF Len(elems) = 1 THEN elems[1]
    ELSE elems[1] \o sep \o Join(Tail(elems), sep)

\* BaseResponse values the body can decode to
Envelopes ==
    [TotalItems : {0, 2}, Success : BOOLEAN,
     Errors : {<<>>, <<"e1">>, <<"e1", "e2">>}, Results : {"", "null", "[]", "[7]"}]
\* var response BaseResponse: the zero value, also what a body without any of
\* the fields decodes to (Results is then empty, "results": null gives "null")
EmptyEnvelope == [TotalItems |-> 0, Success |-> FALSE, Errors |-> <<>>, Results |-> ""]

\* status codes retryablehttp hands back with a response (429 and 5xx other
\* than 501 end as an error of client.Get)
StatusCodes == {200, 204, 299, 300, 304, 399, 400, 404, 501}

\* what tcg.client.Get and io.ReadAll yield: an error, or a status with a body
\* that json.Unmarshal rejects or decodes into an envelope
Replies ==
    [kind : {"get_error", "read_error"}, StatusCode : {0}, wellFormed : {FALSE},
     envelope : {EmptyEnvelope}]
    \cup [kind : {"response"}, StatusCode : StatusCodes, wellFormed : {FALSE},
          envelope : {EmptyEnvelope}]
    \cup [kind : {"response"}, StatusCode : StatusCodes, wellFormed : {TRUE},
          envelope : Envelopes]

\* line 282: resp.StatusCode/200 != 1
NotSuccessStatus(code) == code \div 200 # 1

\* (response, err) of GetRequest for reply r
GetRequest(r) ==
    IF r.kind # "response"
    THEN [failed |-> TRUE, err |-> r.kind, response |-> EmptyEnvelope]
    ELSE IF ~r.wellFormed
    THEN [failed |-> TRUE, err |-> "json: body", response |-> EmptyEnvelope]
    ELSE IF NotSuccessStatus(r.StatusCode) /\ Len(r.envelope.Errors) > 0
    THEN [failed |-> TRUE, err |-> Join(r.envelope.Errors, " "),
          response |-> EmptyEnvelope]
    ELSE [failed |-> FALSE, err |-> "", response |-> r.envelope]

NotCalled == [failed |-> FALSE, err |-> "not called", response |-> EmptyEnvelope]

InitDecode ==
    /\ reply \in Replies
    /\ decoded = NotCalled

CallGetRequest ==
    /\ decoded = NotCalled
    /\ UNCHANGED <<authVars, limVars, dumpVars, runVars>>
    /\ decoded' = GetRequest(reply)
    /\ UNCHANGED reply

(* --------------------- run(): the pagination engine -------------------- *)
Workers == 1 .. MaxWorkers
Min(a, b) == IF a < b THEN a ELSE b

\* The catalogue the server holds, by position. "asc" and "desc" list every
\* product once; in "shifted" an insertion between two page requests moved the
\* listing by one, so the first item of the second page is the last product of
\* the first page again, edited in the meantime.
ProductAt(kind, total, pos) ==
    IF kind = "asc" THEN [ProductId |-> pos + 1, Name |-> "card"]
    ELSE IF kind = "desc" THEN [ProductId |-> total - pos, Name |-> "card"]
    ELSE IF pos < MaxItemsInResponse THEN [ProductId |-> pos + 1, Name |-> "card"]
    ELSE IF pos = MaxItemsInResponse THEN [ProductId |-> pos, Name |-> "edited"]
    ELSE [ProductId |-> pos, Name |-> "card"]

\* ListAllProducts(category, types, true, offset) when the request succeeds:
\* the products at offset .. offset+limit-1, limit = MaxItemsInResponse
PageLength(total, offset) ==
    IF offset >= total THEN 0 ELSE Min(MaxItemsInResponse, total - offset)
ListAllProducts(kind, total, offset) ==
    [k \in 1 .. PageLength(total, offset) |-> ProductAt(kind, total, offset + k - 1)]

\* line 93: for i := 0; i < totalProducts; i += MaxItemsInResponse
MorePagesInclusive(n, total) == n <= total
MorePages(n, total) == n < total
NextOffset(n) == n + MaxItemsInResponse

\* lines 80-83: a failed fetch is logged and the worker continues with the
\* next offset
OnFetchErrorReturn == "done"
OnFetchError == "recv"

\* lines 107-109: sort.Slice(products, less) with less on ProductId. sort.Slice
\* is not stable: items that compare equal may end in any order.
LessReversed(a, b) == a.ProductId > b.ProductId
Less(a, b) == a.ProductId < b.ProductId

\* f as a sequence, every element computed once
Table(f) == f \o <<>>

\* Every ascending arrangement of s: each item goes to the position given by
\* the number of items less than it, and a run of items that compare equal
\* fills its positions in any order.
SortedArrangements(s) ==
    LET n == Len(s)
        low == Table([j \in 1 .. n |->
                        Cardinality({k \in 1 .. n : Less(s[k], s[j])}) + 1])
        pos == Table([j \in 1 .. n |->
                        low[j] + Cardinality({k \in 1 .. j - 1 :
                                                ~Less(s[k], s[j]) /\ ~Less(s[j], s[k])})])
        at == Table([q \in 1 .. n |-> CHOOSE j \in 1 .. n : pos[j] = q])
        tieSlots == {q \in 2 .. n : low[at[q]] = low[at[q - 1]]}
                    \cup {q \in 1 .. n - 1 : low[at[q]] = low[at[q + 1]]}
        tieItems == {at[q] : q \in tieSlots}
        fills == {g \in [tieSlots -> tieItems] :
                    /\ \A q \in tieSlots : low[g[q]] = low[at[q]]
                    /\ \A x, y \in tieSlots : g[x] = g[y] => x = y}
    IN  {Table([q \in 1 .. n |-> IF q \in tieSlots THEN s[g[q]] ELSE s[at[q]]]) :
         g \in fills}

SortSliceUnsorted(s) == {s}
SortSlice(s) == SortedArrangements(s)

\* totals the count call can report; the longest collection is walked with at
\* most one worker
SmallTotals == {0, 1, MaxItemsInResponse, MaxItemsInResponse + 1}
LongTotal == (MaxPages - 1) * MaxItemsInResponse + MaxItemsInResponse \div 2
TotalsFor(threads) ==
    IF threads <= 1 THEN SmallTotals \cup {LongTotal} ELSE SmallTotals

InitDump ==
    /\ threadOpt \in -1 .. MaxWorkers
    /\ totalProducts \in TotalsFor(threadOpt)
    /\ catalog \in {"asc", "desc", "shifted"}
    /\ mpc = "start"
    /\ products = <<>>
    /\ exitCode = -1
    /\ ppc = "none"
    /\ i = 0
    /\ pagesClosed = FALSE
    /\ channelClosed = FALSE
    /\ wg = 0
    /\ wpc = [w \in Workers |-> "none"]
    /\ page = [w \in Workers |-> 0]
    /\ sending = [w \in Workers |-> 0]
    /\ emitted = <<>>
    /\ fetchedBy = {}
    /\ fetchCount = 0
    /\ failedPages = {}
    /\ drained = <<>>

\* line 75: for i := 0; i < *threadOpt; i++ (worker w is started at i = w - 1)
IsSpawned(w, n) == w - 1 < n

\* lines 71-100: the channels are made, threadOpt workers and the producer
\* are started
Spawn ==
    /\ mpc = "start"
    /\ UNCHANGED <<authVars, limVars, decVars>>
    /\ UNCHANGED runVars
    /\ mpc' = "drain"
    /\ wpc' = [w \in Workers |-> IF IsSpawned(w, threadOpt) THEN "recv" ELSE "none"]
    /\ wg' = Cardinality({w \in Workers : IsSpawned(w, threadOpt)})
    /\ ppc' = "loop"
    /\ i' = 0
    /\ UNCHANGED <<threadOpt, totalProducts, catalog, products, exitCode,
                   pagesClosed, channelClosed, page, sending,
                   emitted, fetchedBy, fetchCount, failedPages, drained>>

\* pages <- i, received by worker w in "for page := range pages"
Handoff(w) ==
    /\ ppc = "loop"
    /\ UNCHANGED <<authVars, limVars, decVars>>
    /\ UNCHANGED runVars
    /\ MorePages(i, totalProducts)
    /\ wpc[w] = "recv"
    /\ page' = [page EXCEPT ![w] = i]
    /\ wpc' = [wpc EXCEPT ![w] = "fetch"]
    /\ emitted' = Append(emitted, i)
    /\ i' = NextOffset(i)
    /\ UNCHANGED <<threadOpt, totalProducts, catalog, mpc, products, exitCode,
                   ppc, pagesClosed, channelClosed, wg, sending,
                   fetchedBy, fetchCount, failedPages, drained>>

\* close(pages)
ClosePages ==
    /\ ppc = "loop"
    /\ UNCHANGED <<authVars, limVars, decVars>>
    /\ UNCHANGED runVars
    /\ ~MorePages(i, totalProducts)
    /\ pagesClosed' = TRUE
    /\ ppc' = "wait"
    /\ UNCHANGED <<threadOpt, totalProducts, catalog, mpc, products, exitCode,
                   i, channelClosed, wg, wpc, page, sending,
                   emitted, fetchedBy, fetchCount, failedPages, drained>>

\* products, err := tcgClient.ListAllProducts(..., page)
Fetch(w) ==
    /\ wpc[w] = "fetch"
    /\ UNCHANGED <<authVars, limVars, decVars>>
    /\ UNCHANGED runVars
    /\ fetchedBy' = fetchedBy \cup {<<page[w], w>>}
    /\ fetchCount' = fetchCount + 1
    /\ \E ok \in BOOLEAN :
         IF ~ok
         THEN /\ failedPages' = failedPages \cup {page[w]}
              /\ wpc' = [wpc EXCEPT ![w] = OnFetchError]
              /\ UNCHANGED sending
         ELSE /\ UNCHANGED failedPages
              /\ IF PageLength(totalProducts, page[w]) = 0
                 THEN wpc' = [wpc EXCEPT ![w] = "recv"] /\ UNCHANGED sending
                 ELSE /\ wpc' = [wpc EXCEPT ![w] = "send"]
                      /\ sending' = [sending EXCEPT ![w] = 1]
    /\ UNCHANGED <<threadOpt, totalProducts, catalog, mpc, products, exitCode,
                   ppc, i, pagesClosed, channelClosed, wg, page,
                   emitted, drained>>

\* channel <- product in worker w, received by "for result := range channel"
\* and appended to products
Deliver(w) ==
    /\ wpc[w] = "send"
    /\ UNCHANGED <<authVars, limVars, decVars>>
    /\ UNCHANGED runVars
    /\ mpc = "drain"
    /\ products' = Append(products,
                          ListAllProducts(catalog, totalProducts, page[w])[sending[w]])
    /\ IF sending[w] < PageLength(totalProducts, page[w])
       THEN sending' = [sending EXCEPT ![w] = @ + 1] /\ UNCHANGED wpc
       ELSE sending' = [sending EXCEPT ![w] = 0] /\ wpc' = [wpc EXCEPT ![w] = "recv"]
    /\ UNCHANGED <<threadOpt, totalProducts, catalog, mpc, exitCode,
                   ppc, i, pagesClosed, channelClosed, wg, page,
                   emitted, fetchedBy, fetchCount, failedPages, drained>>

\* line 88: wg.Done()
WgDoneSkipped(n) == n
WgDone(n) == n - 1

\* the range over pages ends once pages is closed; wg.Done()
WorkerDone(w) ==
    /\ wpc[w] = "recv"
    /\ UNCHANGED <<authVars, limVars, decVars>>
    /\ UNCHANGED runVars
    /\ pagesClosed
    /\ wpc' = [wpc EXCEPT ![w] = "done"]
    /\ wg' = WgDone(wg)
    /\ UNCHANGED <<threadOpt, totalProducts, catalog, mpc, products, exitCode,
                   ppc, i, pagesClosed, channelClosed, page, sending,
                   emitted, fetchedBy, fetchCount, failedPages, drained>>

\* line 98: wg.Wait() returns once every worker has called wg.Done()
WaitReturnsAtOnce(n) == TRUE
WaitReturns(n) == n = 0

\* wg.Wait(); close(channel)
CloseChannel ==
    /\ ppc = "wait"
    /\ UNCHANGED <<authVars, limVars, decVars>>
    /\ WaitReturns(wg)
    /\ channelClosed' = TRUE
    /\ closes' = closes + 1
    /\ UNCHANGED <<tcgPublicKeyOpt, tcgPrivateKeyOpt, pubEnv, priEnv, categoryOpt,
                   tcgClient, categories, totalgroups, groups, gi,
                   issued, failedCall>>
    /\ ppc' = "done"
    /\ UNCHANGED <<threadOpt, totalProducts, catalog, mpc, products, exitCode,
                   i, pagesClosed, wg, wpc, page, sending,
                   emitted, fetchedBy, fetchCount, failedPages, drained>>

\* the range over channel ends once channel is closed
DrainEnd ==
    /\ mpc = "drain"
    /\ UNCHANGED <<authVars, limVars, decVars>>
    /\ UNCHANGED runVars
    /\ channelClosed
    /\ mpc' = "sort"
    /\ drained' = products
    /\ UNCHANGED <<threadOpt, totalProducts, catalog, products, exitCode,
                   ppc, i, pagesClosed, channelClosed, wg, wpc, page, sending,
                   emitted, fetchedBy, fetchCount, failedPages>>

\* sort.Slice(products, ...)
Sort ==
    /\ mpc = "sort"
    /\ UNCHANGED <<authVars, limVars, decVars>>
    /\ UNCHANGED runVars
    /\ products' \in SortSlice(products)
    /\ mpc' = "output"
    /\ UNCHANGED <<threadOpt, totalProducts, catalog, exitCode,
                   ppc, i, pagesClosed, channelClosed, wg, wpc, page, sending,
                   emitted, fetchedBy, fetchCount, failedPages, drained>>

\* lines 111-129: output.Category = categories[0] panics on an empty list
\* (index out of range, the process ends with status 2); otherwise the
\* document is encoded to standard output; return 0
Output ==
    /\ mpc = "output"
    /\ UNCHANGED <<authVars, limVars, decVars>>
    /\ UNCHANGED runVars
    /\ IF Len(categories) = 0
       THEN exitCode' = 2 /\ mpc' = "panic"
       ELSE exitCode' = 0 /\ mpc' = "exit"
    /\ UNCHANGED <<threadOpt, totalProducts, catalog, products,
                   ppc, i, pagesClosed, channelClosed, wg, wpc, page, sending,
                   emitted, fetchedBy, fetchCount, failedPages, drained>>

(* ------------------ run(): options and baseline calls ------------------ *)
\* json.Unmarshal(resp.Results, &out) into a slice: an empty input is an error
\* ("unexpected end of JSON input"), null and [] give no element
UnmarshalList(raw) ==
    IF raw = "" THEN [failed |-> TRUE, out |-> <<>>]
    ELSE IF raw \in {"null", "[]"} THEN [failed |-> FALSE, out |-> <<>>]
    ELSE [failed |-> FALSE, out |-> <<7>>]

\* GetCategoriesDetails and ListAllCategoryGroups: GetRequest, then the
\* results decoded into a list
ListResults(r) ==
    IF GetRequest(r).failed
    THEN [failed |-> TRUE, out |-> <<>>]
    ELSE UnmarshalList(GetRequest(r).response.Results)
GetCategoriesDetails(r) == ListResults(r)
ListAllCategoryGroups(r) == ListResults(r)

\* queryTotal: GetRequest, then response.TotalItems
queryTotal(r) ==
    IF GetRequest(r).failed
    THEN [failed |-> TRUE, total |-> 0]
    ELSE [failed |-> FALSE, total |-> GetRequest(r).response.TotalItems]

\* line 31: if *tcgPublicKeyOpt == "" || *tcgPrivateKeyOpt == ""
MissingKeyOptsBoth == tcgPublicKeyOpt = "" /\ tcgPrivateKeyOpt = ""
MissingKeyOpts == tcgPublicKeyOpt = "" \/ tcgPrivateKeyOpt = ""

\* lines 42-45, 49-52, 56-59, 65-68: if err != nil { ...; return 1 }
\* (where the main goroutine goes, and the status it returns)
OnBaselineErrorIgnored(next) == [mpc |-> next, exitCode |-> -1]
OnBaselineError(next) == [mpc |-> "exit", exitCode |-> 1]

\* lines 22-29: a key found in the environment replaces the option's value
ResolveKeys ==
    /\ mpc = "getenv"
    /\ UNCHANGED <<authVars, limVars, decVars>>
    /\ tcgPublicKeyOpt' = IF pubEnv # "" THEN pubEnv ELSE tcgPublicKeyOpt
    /\ tcgPrivateKeyOpt' = IF priEnv # "" THEN priEnv ELSE tcgPrivateKeyOpt
    /\ mpc' = "checkkeys"
    /\ UNCHANGED <<pubEnv, priEnv, categoryOpt, tcgClient, categories, totalgroups,
                   groups, gi, issued, failedCall, closes>>
    /\ UNCHANGED <<threadOpt, totalProducts, catalog, products, exitCode,
                   ppc, i, pagesClosed, channelClosed, wg, wpc, page, sending,
                   emitted, fetchedBy, fetchCount, failedPages, drained>>

\* lines 31-33: log.Fatalln("Missing TCGplayer keys") ends the process with
\* status 1
CheckKeyOpts ==
    /\ mpc = "checkkeys"
    /\ UNCHANGED <<authVars, limVars, decVars>>
    /\ UNCHANGED runVars
    /\ IF MissingKeyOpts
       THEN mpc' = "fatal" /\ exitCode' = 1
       ELSE mpc' = "checkcategory" /\ UNCHANGED exitCode
    /\ UNCHANGED <<threadOpt, totalProducts, catalog, products,
                   ppc, i, pagesClosed, channelClosed, wg, wpc, page, sending,
                   emitted, fetchedBy, fetchCount, failedPages, drained>>

\* lines 35-37: log.Fatalln("Missing category id")
CheckCategory ==
    /\ mpc = "checkcategory"
    /\ UNCHANGED <<authVars, limVars, decVars>>
    /\ UNCHANGED runVars
    /\ IF categoryOpt = 0
       THEN mpc' = "fatal" /\ exitCode' = 1
       ELSE mpc' = "newclient" /\ UNCHANGED exitCode
    /\ UNCHANGED <<threadOpt, totalProducts, catalog, products,
                   ppc, i, pagesClosed, channelClosed, wg, wpc, page, sending,
                   emitted, fetchedBy, fetchCount, failedPages, drained>>

\* line 39: tcgClient := tcgplayer.NewClient(...)
MakeClient ==
    /\ mpc = "newclient"
    /\ UNCHANGED <<authVars, limVars, decVars>>
    /\ tcgClient' = "client"
    /\ mpc' = "category"
    /\ UNCHANGED <<tcgPublicKeyOpt, tcgPrivateKeyOpt, pubEnv, priEnv, categoryOpt,
                   categories, totalgroups, groups, gi, issued, failedCall, closes>>
    /\ UNCHANGED <<threadOpt, totalProducts, catalog, products, exitCode,
                   ppc, i, pagesClosed, channelClosed, wg, wpc, page, sending,
                   emitted, fetchedBy, fetchCount, failedPages, drained>>

\* lines 41-46: categories, err := tcgClient.GetCategoriesDetails(...)
GetCategory ==
    /\ mpc = "category"
    /\ UNCHANGED <<authVars, limVars, decVars>>
    /\ issued' = Append(issued, "category")
    /\ \E r \in Replies :
         IF GetCategoriesDetails(r).failed
         THEN /\ mpc' = OnBaselineError("totalgroups").mpc
              /\ exitCode' = OnBaselineError("totalgroups").exitCode
              /\ failedCall' = "category"
              /\ UNCHANGED categories
         ELSE /\ mpc' = "totalgroups"
              /\ categories' = GetCategoriesDetails(r).out
              /\ UNCHANGED <<exitCode, failedCall>>
    /\ UNCHANGED <<tcgPublicKeyOpt, tcgPrivateKeyOpt, pubEnv, priEnv, categoryOpt,
                   tcgClient, totalgroups, groups, gi, closes>>
    /\ UNCHANGED <<threadOpt, totalProducts, catalog, products,
                   ppc, i, pagesClosed, channelClosed, wg, wpc, page, sending,
                   emitted, fetchedBy, fetchCount, failedPages, drained>>

\* lines 48-52: totalgroups, err := tcgClient.TotalGroups(...)
GetTotalGroups ==
    /\ mpc = "totalgroups"
    /\ UNCHANGED <<authVars, limVars, decVars>>
    /\ issued' = Append(issued, "totalgroups")
    /\ \E r \in Replies :
         IF queryTotal(r).failed
         THEN /\ mpc' = OnBaselineError("groups").mpc
              /\ exitCode' = OnBaselineError("groups").exitCode
              /\ failedCall' = "totalgroups"
              /\ UNCHANGED totalgroups
         ELSE /\ mpc' = "groups"
              /\ totalgroups' = queryTotal(r).total
              /\ UNCHANGED <<exitCode, failedCall>>
    /\ gi' = 0
    /\ UNCHANGED <<tcgPublicKeyOpt, tcgPrivateKeyOpt, pubEnv, priEnv, categoryOpt,
                   tcgClient, categories, groups, closes>>
    /\ UNCHANGED <<threadOpt, totalProducts, catalog, products,
                   ppc, i, pagesClosed, channelClosed, wg, wpc, page, sending,
                   emitted, fetchedBy, fetchCount, failedPages, drained>>

\* lines 54-61: one turn of the loop over the group pages
ListGroups ==
    /\ mpc = "groups"
    /\ UNCHANGED <<authVars, limVars, decVars>>
    /\ IF gi < totalgroups
       THEN /\ issued' = Append(issued, "groups")
            /\ \E r \in Replies :
                 IF ListAllCategoryGroups(r).failed
                 THEN /\ mpc' = OnBaselineError("groups").mpc
                      /\ exitCode' = OnBaselineError("groups").exitCode
                      /\ failedCall' = "groups"
                      /\ UNCHANGED groups
                 ELSE /\ mpc' = "groups"
                      /\ groups' = groups \o ListAllCategoryGroups(r).out
                      /\ UNCHANGED <<exitCode, failedCall>>
            /\ gi' = gi + MaxItemsInResponse
       ELSE /\ mpc' = "totalproducts"
            /\ UNCHANGED <<issued, groups, gi, exitCode, failedCall>>
    /\ UNCHANGED <<tcgPublicKeyOpt, tcgPrivateKeyOpt, pubEnv, priEnv, categoryOpt,
                   tcgClient, categories, totalgroups, closes>>
    /\ UNCHANGED <<threadOpt, totalProducts, catalog, products,
                   ppc, i, pagesClosed, channelClosed, wg, wpc, page, sending,
                   emitted, fetchedBy, fetchCount, failedPages, drained>>

\* lines 64-69: totalProducts, err := tcgClient.TotalProducts(...)
GetTotalProducts ==
    /\ mpc = "totalproducts"
    /\ UNCHANGED <<authVars, limVars, decVars>>
    /\ issued' = Append(issued, "totalproducts")
    /\ \E r \in Replies :
         IF queryTotal(r).failed
         THEN /\ mpc' = OnBaselineError("start").mpc
              /\ exitCode' = OnBaselineError("start").exitCode
              /\ failedCall' = "totalproducts"
              /\ UNCHANGED totalProducts
         ELSE /\ mpc' = "start"
              /\ totalProducts' = queryTotal(r).total
              /\ UNCHANGED <<exitCode, failedCall>>
    /\ UNCHANGED <<tcgPublicKeyOpt, tcgPrivateKeyOpt, pubEnv, priEnv, categoryOpt,
                   tcgClient, categories, totalgroups, groups, gi, closes>>
    /\ UNCHANGED <<threadOpt, catalog, products,
                   ppc, i, pagesClosed, channelClosed, wg, wpc, page, sending,
                   emitted, fetchedBy, fetchCount, failedPages, drained>>

\* run() is entered: the options are parsed, nothing else has happened
InitOptions ==
    /\ tcgPublicKeyOpt \in {"", "pub"}
    /\ tcgPrivateKeyOpt \in {"", "pri"}
    /\ pubEnv \in {"", "envpub"}
    /\ priEnv \in {"", "envpri"}
    /\ categoryOpt \in {0, 1}
    /\ tcgClient = "nil"
    /\ categories = <<>>
    /\ totalgroups = 0
    /\ groups = <<>>
    /\ gi = 0
    /\ issued = <<>>
    /\ failedCall = ""
    /\ closes = 0
    /\ threadOpt \in -1 .. MaxWorkers
    /\ totalProducts = 0
    /\ catalog = "asc"
    /\ mpc = "getenv"
    /\ products = <<>>
    /\ exitCode = -1
    /\ ppc = "none"
    /\ i = 0
    /\ pagesClosed = FALSE
    /\ channelClosed = FALSE
    /\ wg = 0
    /\ wpc = [w \in Workers |-> "none"]
    /\ page = [w \in Workers |-> 0]
    /\ sending = [w \in Workers |-> 0]
    /\ emitted = <<>>
    /\ fetchedBy = {}
    /\ fetchCount = 0
    /\ failedPages = {}
    /\ drained = <<>>

DumpIdle ==
    /\ threadOpt = 0 /\ totalProducts = 0 /\ catalog = "asc"
    /\ mpc = "start" /\ products = <<>> /\ exitCode = -1
    /\ ppc = "none" /\ i = 0 /\ pagesClosed = FALSE /\ channelClosed = FALSE
    /\ wg = 0
    /\ wpc = [w \in Workers |-> "none"]
    /\ page = [w \in Workers |-> 0]
    /\ sending = [w \in Workers |-> 0]
    /\ emitted = <<>> /\ fetchedBy = {} /\ fetchCount = 0 /\ failedPages = {}
    /\ drained = <<>>

\* run() has passed its baseline calls: the state at line 71
RunStarted ==
    /\ tcgPublicKeyOpt = "pub" /\ tcgPrivateKeyOpt = "pri"
    /\ pubEnv = "" /\ priEnv = ""
    /\ categoryOpt = 1
    /\ tcgClient = "client"
    /\ categories = <<7>>
    /\ totalgroups = 0
    /\ groups = <<>>
    /\ gi = 0
    /\ issued = <<"category", "totalgroups", "totalproducts">>
    /\ failedCall = ""
    /\ closes = 0

DecodeIdle ==
    /\ reply = [kind |-> "get_error", StatusCode |-> 0, wellFormed |-> FALSE,
                envelope |-> EmptyEnvelope]
    /\ decoded = NotCalled

(* -------------------------- specifications ----------------------------- *)
\* the shared transport used by NumCallers goroutines
Init == InitAuth /\ InitLimiter(MaxCalls) /\ DecodeIdle /\ DumpIdle /\ RunStarted
Next == Tick \/ \E c \in Callers : RoundTrip(c)
Spec == Init /\ [][Next]_vars

\* the limiter under a burst of calls: more calls than one burst are made by
\* a client without keys, whose calls return right after the permit; a client
\* with keys makes one call
BurstCalls == LimiterBurst + MaxExtraCalls
InitLim ==
    /\ InitAuth
    /\ InitLimiter(IF publicKey = "" \/ privateKey = "" THEN BurstCalls ELSE 1)
    /\ DecodeIdle /\ DumpIdle /\ RunStarted
NextLimiter == Elapse \/ \E c \in Callers : RoundTrip(c)
SpecLimiter == InitLim /\ [][NextLimiter]_vars

\* the envelope decoder applied to every reply
AuthIdle ==
    /\ publicKey = "pub" /\ privateKey = "pri" /\ token = "" /\ expires = ZeroTime
    /\ readers = {} /\ writer = NoOne /\ granted = 0 /\ now = StartTime
    /\ pc = [c \in Callers |-> "idle"]
    /\ ltoken = [c \in Callers |-> ""]
    /\ lexpires = [c \in Callers |-> ZeroTime]
    /\ lerr = [c \in Callers |-> FALSE]
    /\ calls = 0
    /\ result = [c \in Callers |-> "none"]
    /\ checkedAt = [c \in Callers |-> ZeroTime]
    /\ didRequest = [c \in Callers |-> FALSE]
    /\ inRequest = {} /\ requests = 0 /\ goodRequests = 0 /\ late = FALSE
    /\ InitLimiter(0)
InitDec == AuthIdle /\ InitDecode /\ DumpIdle /\ RunStarted
NextDecode == CallGetRequest
SpecDecode == InitDec /\ [][NextDecode]_vars

\* the pagination, merge and ordering of the dump command
InitRun == AuthIdle /\ DecodeIdle /\ InitDump /\ RunStarted
NextDump ==
    \/ Spawn
    \/ \E w \in Workers : Handoff(w)
    \/ ClosePages
    \/ \E w \in Workers : Fetch(w)
    \/ \E w \in Workers : Deliver(w)
    \/ \E w \in Workers : WorkerDone(w)
    \/ CloseChannel
    \/ DrainEnd
    \/ Sort
    \/ Output
SpecDump == InitRun /\ [][NextDump]_vars

\* the same under the scheduling of the Go runtime: a goroutine that can take
\* its next step is not held back forever, and (as C16 supposes) every page
\* fetch returns
\* (the main goroutine up to the end of its drain loop, line 105)
MainSteps == Spawn \/ DrainEnd
ProducerSteps == ClosePages \/ CloseChannel
WorkerSteps(w) == Handoff(w) \/ Fetch(w) \/ Deliver(w) \/ WorkerDone(w)
FairDump ==
    /\ WF_vars(MainSteps)
    /\ WF_vars(ProducerSteps)
    /\ \A w \in Workers : WF_vars(WorkerSteps(w))
\* (termination does not depend on the order of the listing: one catalogue)
InitFair == InitRun /\ catalog = "asc"
SpecDumpFair == InitFair /\ [][NextDump]_vars /\ FairDump

\* run() from its options to its exit
InitExport == AuthIdle /\ DecodeIdle /\ InitOptions
NextExport ==
    \/ ResolveKeys
    \/ CheckKeyOpts
    \/ CheckCategory
    \/ MakeClient
    \/ GetCategory
    \/ GetTotalGroups
    \/ ListGroups
    \/ GetTotalProducts
    \/ NextDump
SpecExport == InitExport /\ [][NextExport]_vars

(* ---------- claims about the transport (Spec) ---------- *)
Finished(c) == pc[c] = "idle" /\ result[c] # "none"
Delegated(c) == pc[c] = "idle" /\ result[c] = "sent"

\* C1 (as stated): when every RoundTrip call was issued before the first
\* credential exchange returned, requestToken is called at most once in total.
C1_AtMostOneRequestInTotal == ~late => requests <= 1

\* C1 (amended): among RoundTrip calls issued before the refresh completes, at
\* most one credential exchange returns a non-empty token; an exchange is only
\* ever running while the stored token is still empty (every earlier exchange
\* failed or returned no access_token); and every caller that delegates without
\* having made an exchange itself carries the stored, non-empty token.
C1_SingleSuccessfulRefresh ==
    /\ goodRequests <= 1
    /\ inRequest # {} => (token = "" /\ goodRequests = 0)
    /\ \A c \in Callers :
         (Delegated(c) /\ ~didRequest[c]) => (ltoken[c] = token /\ token # "")

\* C1 witness: two concurrent calls, one exchange, the other caller adopted it
C1_Witness ==
    /\ ~late
    /\ requests = 1
    /\ \E c, d \in Callers :
         /\ c # d
         /\ Delegated(c) /\ didRequest[c]
         /\ Delegated(d) /\ ~didRequest[d] /\ ltoken[d] = ltoken[c]

\* C2: no request is delegated with a (non-empty) bearer token that was, when
\* the call tested it, at or past its expiry minus the one-hour skew.
C2_NoStaleBearer ==
    \A c \in Callers :
        (Delegated(c) /\ ltoken[c] # "") => checkedAt[c] < lexpires[c] - Skew

\* C3: at most one requestToken call is in flight; it runs under the exclusive
\* lock, and every other caller is outside the locked sections (using the token
\* it read, or waiting for the lock before it reads the token again).
C3_SingleFlight ==
    /\ Cardinality(inRequest) <= 1
    /\ \A c \in inRequest :
         /\ pc[c] = "request"
         /\ writer = c
         /\ readers = {}
         /\ \A d \in Callers \ {c} : pc[d] \notin {"read", "clear", "compare", "request"}

\* C3 witness: one caller is inside requestToken while another waits for the lock
C3_Witness ==
    \E c, d \in Callers : c # d /\ c \in inRequest /\ pc[d] = "gen" /\ ltoken[d] = ""

\* C4: every request that reaches the underlying transport carries a non-empty
\* bearer token.
C4_BearerNonEmpty == \A c \in Callers : Delegated(c) => ltoken[c] # ""

\* C5: with an empty public or private key every RoundTrip fails fast: no
\* credential exchange is started, nothing is delegated, and the stored token
\* and expiry keep their initial values.
C5_MissingKeysFailFast ==
    (publicKey = "" \/ privateKey = "") =>
        /\ requests = 0
        /\ inRequest = {}
        /\ token = "" /\ expires = ZeroTime
        /\ \A c \in Callers :
             /\ pc[c] \in {"idle", "keys"}
             /\ result[c] \in {"none", "err_keys"}

\* C5 witness: one key is present, the other is empty, and a call has failed
C5_Witness ==
    /\ publicKey # "" /\ privateKey = ""
    /\ \E c \in Callers : Finished(c) /\ result[c] = "err_keys"

(* ---------- claims about the decoder (SpecDecode) ---------- *)
SuccessClass(code) == 200 <= code /\ code <= 299

\* C6: for a well-formed envelope GetRequest fails, with the joined error
\* strings as its message, exactly when the status is outside 2xx and the
\* envelope carries at least one error string; otherwise it returns the envelope
\* unchanged.
C6_DecoderFailsExactlyOnErrorStatus ==
    (decoded # NotCalled /\ reply.kind = "response" /\ reply.wellFormed) =>
        IF ~SuccessClass(reply.StatusCode) /\ Len(reply.envelope.Errors) > 0
        THEN decoded.failed /\ decoded.err = Join(reply.envelope.Errors, " ")
        ELSE ~decoded.failed /\ decoded.response = reply.envelope

(* ---------- claims about the dump command (SpecDump) ---------- *)
Range(s) == {s[k] : k \in 1 .. Len(s)}
PagesNeeded(total) == (total + MaxItemsInResponse - 1) \div MaxItemsInResponse
ExpectedOffsets(total) == {k * MaxItemsInResponse : k \in 0 .. PagesNeeded(total) - 1}
FetchedOffsets == {f[1] : f \in fetchedBy}
SucceededPages == FetchedOffsets \ failedPages
ItemsOfPages(offsets) ==
    UNION {Range(ListAllProducts(catalog, totalProducts, o)) : o \in offsets}
RECURSIVE ItemsOnPages(_)
ItemsOnPages(offsets) ==
    IF offsets = {} THEN 0
    ELSE LET o == CHOOSE x \in offsets : TRUE
         IN  PageLength(totalProducts, o) + ItemsOnPages(offsets \ {o})
Ascending(s) == \A q \in 1 .. Len(s) - 1 : s[q].ProductId <= s[q + 1].ProductId
StrictlyAscending(s) == \A q \in 1 .. Len(s) - 1 : s[q].ProductId < s[q + 1].ProductId
DistinctIds(s) == \A x, y \in Range(s) : x.ProductId = y.ProductId => x = y
Occurrences(s, x) == Cardinality({k \in 1 .. Len(s) : s[k] = x})
SameItems(s, t) ==
    /\ Len(s) = Len(t)
    /\ \A x \in Range(s) \cup Range(t) : Occurrences(s, x) = Occurrences(t, x)

\* C7: the producer emits exactly the offsets 0, 100, 200, ... below
\* totalProducts, ceil(totalProducts / 100) of them once it has closed the
\* queue, and every emitted offset is fetched exactly once: by one worker only,
\* and once all workers are past their fetch none is left out.
C7_OffsetsFetchedOnce ==
    /\ \A k \in 1 .. Len(emitted) :
         emitted[k] = (k - 1) * MaxItemsInResponse /\ emitted[k] < totalProducts
    /\ pagesClosed => Len(emitted) = PagesNeeded(totalProducts)
    /\ FetchedOffsets \subseteq Range(emitted)
    /\ \A f, g \in fetchedBy : f[1] = g[1] => f = g
    /\ fetchCount = Cardinality(fetchedBy)
    /\ (pagesClosed /\ \A w \in Workers : wpc[w] # "fetch") =>
          /\ FetchedOffsets = ExpectedOffsets(totalProducts)
          /\ fetchCount = PagesNeeded(totalProducts)

\* C7 witness: 250 items, the offsets 0, 100, 200 were emitted and fetched
C7_Witness ==
    /\ totalProducts = 2 * MaxItemsInResponse + MaxItemsInResponse \div 2
    /\ threadOpt >= 1
    /\ mpc = "exit"
    /\ emitted = <<0, MaxItemsInResponse, 2 * MaxItemsInResponse>>
    /\ FetchedOffsets = {0, MaxItemsInResponse, 2 * MaxItemsInResponse}
    /\ fetchCount = 3

C9_SortDeterministicAndIdempotent ==
    mpc = "exit" =>
        /\ SortSlice(drained) = {products}
        /\ SortSlice(products) = {products}

\* C9 (amended): when the drained items carry pairwise distinct product
\* identifiers, the output is fixed by the set of items alone, whatever their
\* arrival order (each item stands at the position given by the number of items
\* with a smaller identifier), and sorting the output again yields it again.
C9_SortDeterministicForDistinctIds ==
    (mpc = "exit" /\ DistinctIds(drained)) =>
        /\ Len(products) = Cardinality(Range(drained))
        /\ \A q \in 1 .. Len(products) :
             /\ products[q] \in Range(drained)
             /\ Cardinality({x \in Range(drained) :
                               x.ProductId < products[q].ProductId}) = q - 1
        /\ SortSlice(products) = {products}

\* C9 witness: two workers, the item of the second page arrived first and
\* the sort moved it to the end
C9_Witness ==
    /\ mpc = "exit"
    /\ threadOpt >= 2
    /\ catalog = "asc"
    /\ Len(drained) = MaxItemsInResponse + 1
    /\ drained[1].ProductId = MaxItemsInResponse + 1
    /\ products[Len(products)] = drained[1]
    /\ DistinctIds(drained)

\* C10: the emitted product list holds exactly the drained items, each as often
\* as it was drained, in ascending order of ProductId; when every page was
\* fetched and the pages list every product once, it has totalProducts items
\* in strictly ascending order.
C10_OutputIsSortedPermutation ==
    mpc = "exit" =>
        /\ SameItems(products, drained)
        /\ Ascending(products)
        /\ (failedPages = {} /\ catalog \in {"asc", "desc"}) =>
              (Len(products) = totalProducts /\ StrictlyAscending(products))

\* C10 witness: 250 products listed in descending order, all pages fetched,
\* emitted in ascending order
C10_Witness ==
    /\ mpc = "exit"
    /\ catalog = "desc"
    /\ failedPages = {}
    /\ totalProducts = 2 * MaxItemsInResponse + MaxItemsInResponse \div 2
    /\ Len(products) = totalProducts
    /\ products[1].ProductId = 1
    /\ drained[1].ProductId = totalProducts

(* ---------- claims about the limiter (SpecLimiter, Spec) ---------- *)
\* C13: whatever the callers do, the permits granted within any window of W
\* seconds are at most burst + rate * W, with rate 80 and burst 20: for any two
\* grants j <= k, the k - j + 1 permits granted from the j-th to the k-th fit
\* the time between them (counted in limiter ticks of 1/TicksPerSecond s).
C13_PermitsWithinWindow ==
    /\ granted = Len(grantTimes)
    /\ \A j, k \in 1 .. Len(grantTimes) :
         j <= k =>
            (k - j + 1) * TicksPerSecond
               <= LimiterBurst * TicksPerSecond
                  + LimiterRate * (grantTimes[k] - grantTimes[j])

\* C13 witness: a full burst was granted at once, the next call had to wait
\* for one tick, and a further call is waiting for its permit
C13_Witness ==
    /\ Len(grantTimes) = LimiterBurst + 1
    /\ grantTimes[LimiterBurst] = 0
    /\ grantTimes[LimiterBurst + 1] = 1
    /\ elapsed = 1
    /\ ~HasPermit(bucket)
    /\ \E c \in Callers : pc[c] = "idle" /\ calls < budget

\* C14: the limiter is shared by every outbound call: each network call the
\* transport starts, the credential-exchange POST of requestToken included, is
\* preceded by its own permit, so the calls started (POSTs and delegated
\* requests) never outnumber the permits granted.
C14_OutboundWithinPermits == requests + sends <= granted

\* C15: a failed refresh is reported only to the caller that attempted it and
\* is not cached. In every state: a refresh error is held only by a caller that
\* called requestToken itself, that caller returns the error and delegates
\* nothing, and a caller that did not call requestToken never returns a refresh
\* error. In every step: a requestToken that fails leaves the stored token
\* empty, and a caller that holds the lock while the stored token is empty
\* makes its own refresh attempt.
C15_FailedRefreshNotCached ==
    /\ [](\A c \in Callers :
            /\ lerr[c] => (didRequest[c] /\ pc[c] \in {"err", "idle"})
            /\ (lerr[c] /\ pc[c] = "idle") => result[c] = "err_auth"
            /\ result[c] = "err_auth" => (lerr[c] /\ didRequest[c]))
    /\ [][\A c \in Callers :
            /\ (pc[c] = "request" /\ pc'[c] = "err" /\ lerr'[c]) =>
                  (token' = "" /\ expires' = ZeroTime)
            /\ (pc[c] = "compare" /\ pc'[c] # "compare" /\ token = "") =>
                  (pc'[c] = "request" /\ requests' = requests + 1)]_vars

\* C15 witness: one caller has returned the error of its failed refresh, and
\* the other, which was waiting for the lock meanwhile, is now making its own
\* refresh attempt
C15_Witness ==
    \E c, d \in Callers :
        /\ c # d
        /\ Finished(c) /\ result[c] = "err_auth"
        /\ pc[d] = "request" /\ didRequest[d]
        /\ ~late
        /\ token = ""

(* ---------------------------------- C11 ---------------------------------- *)
\* C11: when, after the options and the environment are read, the public or
\* the private key is empty or the category id is 0, run() ends in a fatal
\* exit with a non-zero status before any network call: it never constructs
\* the client and never issues a category, count, group or product request.
BadOptions == tcgPublicKeyOpt = "" \/ tcgPrivateKeyOpt = "" \/ categoryOpt = 0
C11_BadOptionsAreFatal ==
    (mpc # "getenv" /\ BadOptions) =>
        /\ mpc \in {"checkkeys", "checkcategory", "fatal"}
        /\ (mpc = "checkcategory" => (tcgPublicKeyOpt # "" /\ tcgPrivateKeyOpt # ""))
        /\ (mpc = "fatal" => exitCode = 1)
        /\ tcgClient = "nil"
        /\ issued = <<>>
        /\ fetchCount = 0
        /\ ppc = "none"
        /\ \A w \in Workers : wpc[w] = "none"
C11_Witness ==
    /\ mpc = "fatal"
    /\ exitCode = 1
    /\ tcgPublicKeyOpt = "envpub"
    /\ tcgPrivateKeyOpt = ""
    /\ categoryOpt = 1
    /\ tcgClient = "nil"
    /\ issued = <<>>

(* ---------------------------------- C12 ---------------------------------- *)
\* C12: when a baseline call (category detail, total groups, group listing,
\* total products) fails, run() returns 1 right there: no later call is
\* issued, no worker and no producer is started, no page is fetched and no
\* output document is written.
BaselineCalls == {"category", "totalgroups", "groups", "totalproducts"}
C12_BaselineFailureExits ==
    /\ failedCall \in BaselineCalls \cup {""}
    /\ failedCall # "" =>
        /\ mpc = "exit"
        /\ exitCode = 1
        /\ issued # <<>>
        /\ issued[Len(issued)] = failedCall
        /\ ppc = "none"
        /\ \A w \in Workers : wpc[w] = "none"
        /\ fetchCount = 0
        /\ emitted = <<>>
        /\ products = <<>>
        /\ closes = 0
C12_Witness ==
    /\ failedCall = "totalproducts"
    /\ issued = <<"category", "totalgroups", "groups", "totalproducts">>
    /\ mpc = "exit"
    /\ exitCode = 1
    /\ threadOpt = MaxWorkers
    /\ \A w \in Workers : wpc[w] = "none"

(* ---------------------------------- C19 ---------------------------------- *)
\* C19: when every baseline call returned without an error, a run that ends
\* ends in the output step with status 0 and the category filled in; the
\* first element of an empty category list is never read.
C19_SuccessfulBaselineExitsZero ==
    /\ mpc # "panic"
    /\ (mpc = "exit" /\ failedCall = "") => (exitCode = 0 /\ Len(categories) > 0)

(* ---------------------------------- C17 ---------------------------------- *)
\* C17: the result channel is closed only after the offset channel is closed
\* and every worker has finished, so nothing is sent on it after the close;
\* it is closed exactly once; and every item a worker forwarded has been
\* received by the time the drain loop ends.
PastDrain == mpc \in {"sort", "output", "exit", "panic"}
C17_ResultChannelClosedLast ==
    /\ closes <= 1
    /\ channelClosed <=> closes = 1
    /\ channelClosed =>
        /\ pagesClosed
        /\ ppc = "done"
        /\ wg = 0
        /\ \A w \in Workers : wpc[w] \in {"none", "done"} /\ sending[w] = 0
    /\ PastDrain =>
        /\ channelClosed
        /\ Len(drained) = ItemsOnPages(SucceededPages)
C17_Witness ==
    /\ mpc = "sort"
    /\ closes = 1
    /\ threadOpt = MaxWorkers
    /\ totalProducts = MaxItemsInResponse + 1
    /\ failedPages = {}
    /\ Len(drained) = totalProducts
    /\ \A w \in Workers : wpc[w] = "done"

(* ---------------------------------- C18 ---------------------------------- *)
\* C18: at any moment at most as many page fetches are in flight as workers
\* were configured (none for a count below 1), and whatever the worker count,
\* a run that has come to a stop has made ceil(totalProducts / 100) page
\* fetches in all.
InFlight == Cardinality({w \in Workers : wpc[w] = "fetch"})
ConfiguredWorkers == IF threadOpt < 0 THEN 0 ELSE threadOpt
Stopped == ~ENABLED NextDump
C18_FetchesBoundedAndComplete ==
    /\ InFlight <= ConfiguredWorkers
    /\ fetchCount <= PagesNeeded(totalProducts)
    /\ Stopped => fetchCount = PagesNeeded(totalProducts)

(* ---------------------------------- C20 ---------------------------------- *)
\* C20: for every worker count the command accepts, 0 and negative values
\* included, and every totalProducts >= 0, the run never comes to a stop
\* before its exit: the producer is never left blocked on handing out an
\* offset with nothing else able to move.
C20_NeverStuckBeforeExit == ENABLED NextDump \/ mpc = "exit"

(* ---------------------------------- C16 ---------------------------------- *)
\* C16: with one worker or more, for every totalProducts >= 0 and whichever
\* page fetches fail, the pagination run finishes under fair scheduling: the
\* producer hands out every offset and closes the offset channel, every worker
\* leaves its loop, the result channel is closed and the drain loop ends, so
\* no goroutine stays blocked on a channel for ever.
PaginationFinished ==
    /\ PastDrain
    /\ Len(emitted) = PagesNeeded(totalProducts)
    /\ pagesClosed
    /\ ppc = "done"
    /\ channelClosed
    /\ \A w \in Workers : IsSpawned(w, threadOpt) => wpc[w] = "done"
C16_PaginationTerminates == (threadOpt >= 1) => <>[]PaginationFinished
C16_Witness ==
    /\ PaginationFinished
    /\ threadOpt = MaxWorkers
    /\ totalProducts = MaxItemsInResponse + 1
    /\ failedPages = {MaxItemsInResponse}
    /\ Len(drained) = MaxItemsInResponse
====
